---- MODULE Spec2Model ----
(***************************************************************************)
(* Hymn PDF Combiner (src/app.py): the range parser parse_hymn_numbers,    *)
(* the file resolver pdf_paths_for_hymn and the merge worker               *)
(* HymnCombinerApp.merge_pdfs with the Tk event queue it posts to.         *)
(*                                                                         *)
(* Strings are sequences of one-character strings, so that splitting,      *)
(* regular-expression matching, int(), str.lower() and the comparison of   *)
(* strings are computed character by character as the code computes them.  *)
(***************************************************************************)
EXTENDS Integers, Sequences, FiniteSets, TLC

VARIABLES
    raw,         \* the text handed to parse_hymn_numbers
    parsed,      \* "no" before the call of parse_hymn_numbers, "yes" after it
    nums,        \* the list parse_hymn_numbers returned
    dirExists,   \* pdf_dir.exists()
    dirFiles,    \* the names of the entries of pdf_dir
    platform,    \* "posix", "darwin" or "windows": how names are looked up
    hashOrder,   \* this process's iteration order of a set of the entries' paths
    hymn_number, \* the number handed to pdf_paths_for_hymn
    paths,       \* the list the last call of pdf_paths_for_hymn returned
    prev_paths,  \* the list the call before it returned
    calls,       \* how many calls of pdf_paths_for_hymn were made
    merge_button,     \* state of the Merge button: "normal" or "disabled"
    uiQueue,          \* the callbacks posted with root.after(0, ...), oldest first
    progress_label,   \* the status progress_label shows
    progress_percent, \* the text progress_percent shows
    dialogs,          \* the message boxes that are open, the newest last
    wpc,              \* where the worker thread is in merge_pdfs; "idle": no worker
    active,           \* the number of worker threads started and not ended
    hymn_input,       \* merge_pdfs: its argument hymn_input
    output_filename,  \* merge_pdfs: its argument output_filename
    hymn_numbers,     \* merge_pdfs: the parsed sequence
    idx,              \* merge_pdfs: how many numbers the loop has resolved
    missing,          \* merge_pdfs: the numbers resolved to no file
    to_merge,         \* merge_pdfs: the files found so far
    checked_log,      \* the i of every "(i/M hymns checked)" the worker posted
    merge_call,       \* whether the worker called the module's merge_pdfs, and on what
    outcome,          \* how the last worker ended
    pdfLib,           \* whether pypdf or PyPDF2 can be imported
    outDirExists,     \* whether the directory of the output path exists
    outFileExists     \* whether the output file exists

parseVars == <<raw, parsed, nums>>

dirVars == <<dirExists, dirFiles, platform, hashOrder>>

resolveVars == <<hymn_number, paths, prev_paths, calls>>

vars ==
    <<raw, parsed, nums, dirExists, dirFiles, platform, hashOrder, hymn_number, paths,
      prev_paths, calls, merge_button, uiQueue, progress_label, progress_percent,
      dialogs, wpc, active, hymn_input, output_filename, hymn_numbers, idx, missing,
      to_merge, checked_log, merge_call, outcome, pdfLib, outDirExists, outFileExists>>

(***************************************************************************)
(* Characters.                                                             *)
(***************************************************************************)
DigitChars == <<"0", "1", "2", "3", "4", "5", "6", "7", "8", "9">>

LowerChars == <<"a", "b", "c", "d", "e", "f", "g", "h", "i", "j", "k", "l", "m",
                "n", "o", "p", "q", "r", "s", "t", "u", "v", "w", "x", "y", "z">>

UpperChars == <<"A", "B", "C", "D", "E", "F", "G", "H", "I", "J", "K", "L", "M",
                "N", "O", "P", "Q", "R", "S", "T", "U", "V", "W", "X", "Y", "Z">>

Range(f) == {f[i] : i \in DOMAIN f}

IndexOf(c, tbl) == CHOOSE i \in DOMAIN tbl : tbl[i] = c

\* \d of the re module, on the ASCII characters the model draws
IsDigit(c) == c \in Range(DigitChars)

\* \s of the re module and the whitespace str.strip() removes
IsSpace(c) == c \in {" ", "\t", "\n", "\r"}

\* the character class [\s,;] of the separator pattern
IsSep(c) == IsSpace(c) \/ c \in {",", ";"}

DigitVal(c) == IndexOf(c, DigitChars) - 1

\* int(s) for a string of decimal digits
RECURSIVE ToInt(_)
ToInt(ds) ==
    IF ds = <<>> THEN 0
    ELSE ToInt(SubSeq(ds, 1, Len(ds) - 1)) * 10 + DigitVal(ds[Len(ds)])

\* str(n) / f"{n}" for n >= 0
RECURSIVE ToStr(_)
ToStr(n) ==
    IF n < 10 THEN <<DigitChars[n + 1]>>
    ELSE Append(ToStr(n \div 10), DigitChars[(n % 10) + 1])

(***************************************************************************)
(* parse_hymn_numbers                                                      *)
(***************************************************************************)
RECURSIVE LStrip(_)
LStrip(s) == IF s # <<>> /\ IsSpace(s[1]) THEN LStrip(Tail(s)) ELSE s

RECURSIVE RStrip(_)
RStrip(s) ==
    IF s # <<>> /\ IsSpace(s[Len(s)]) THEN RStrip(SubSeq(s, 1, Len(s) - 1)) ELSE s

\* str.strip()
Strip(s) == RStrip(LStrip(s))

\* re.split(r"[\s,;]+", s): a run of separators is one split point; a separator
\* at either end leaves an empty string there
RECURSIVE SplitFrom(_, _, _, _)
SplitFrom(s, i, cur, acc) ==
    IF i > Len(s) THEN Append(acc, cur)
    ELSE IF IsSep(s[i])
         THEN IF i > 1 /\ IsSep(s[i - 1])
              THEN SplitFrom(s, i + 1, cur, acc)
              ELSE SplitFrom(s, i + 1, <<>>, Append(acc, cur))
         ELSE SplitFrom(s, i + 1, Append(cur, s[i]), acc)

ReSplit(s) == SplitFrom(s, 1, <<>>, <<>>)

\* \d{1,4} matched against the whole of s
MatchDigits14(s) ==
    /\ Len(s) >= 1
    /\ Len(s) <= 4
    /\ \A i \in 1..Len(s) : IsDigit(s[i])

\* the positions of the hyphen at which (\d{1,4})-(\d{1,4}) matches the whole token
RangeHyphens(tok) ==
    {h \in 2..(Len(tok) - 1) :
        /\ tok[h] = "-"
        /\ MatchDigits14(SubSeq(tok, 1, h - 1))
        /\ MatchDigits14(SubSeq(tok, h + 1, Len(tok)))}

\* re.fullmatch(r"(\d{1,4})-(\d{1,4})", tok)
FullMatchRange(tok) == RangeHyphens(tok) # {}

\* re.fullmatch(r"\d{1,4}", tok)
FullMatchNumberLong(tok) == Len(tok) >= 1 /\ \A i \in 1..Len(tok) : IsDigit(tok[i])

FullMatchNumber(tok) == MatchDigits14(tok)

\* range(start, stop, step) as a list, step # 0
PyRange(start, stop, step) ==
    LET n == IF step > 0
             THEN IF stop > start THEN (stop - start + step - 1) \div step ELSE 0
             ELSE IF start > stop THEN (start - stop - step - 1) \div (0 - step) ELSE 0
    IN  [k \in 1..n |-> start + (k - 1) * step]

\* step = 1 if end >= start else -1
RangeStepUp(start, end) == 1

RangeStep(start, end) == IF end >= start THEN 1 ELSE -1

\* what one token adds to nums: the body of the for loop
TokenNums(tok) ==
    IF tok = <<>> THEN <<>>
    ELSE IF FullMatchRange(tok)
         THEN LET h     == CHOOSE x \in RangeHyphens(tok) : TRUE
                  start == ToInt(SubSeq(tok, 1, h - 1))
                  end   == ToInt(SubSeq(tok, h + 1, Len(tok)))
                  step  == RangeStep(start, end)
              IN  PyRange(start, end + step, step)
         ELSE IF FullMatchNumber(tok) THEN <<ToInt(tok)>>
         ELSE <<>>

RECURSIVE ParseLoop(_, _, _)
ParseLoop(tokens, i, acc) ==
    IF i > Len(tokens) THEN acc
    ELSE ParseLoop(tokens, i + 1, acc \o TokenNums(tokens[i]))

\* the list without the later occurrences of a value
RECURSIVE Dedup(_)
Dedup(s) ==
    IF s = <<>> THEN <<>>
    ELSE LET front == Dedup(SubSeq(s, 1, Len(s) - 1))
         IN  IF s[Len(s)] \in Range(front) THEN front ELSE Append(front, s[Len(s)])

parse_hymn_numbers_unique(text) ==
    LET stripped == Strip(text)
    IN  IF stripped = <<>> THEN <<>> ELSE Dedup(ParseLoop(ReSplit(stripped), 1, <<>>))

parse_hymn_numbers(text) ==
    LET stripped == Strip(text)
    IN  IF stripped = <<>> THEN <<>> ELSE ParseLoop(ReSplit(stripped), 1, <<>>)

(***************************************************************************)
(* Specification of the parser alone: any text of at most MaxRawLen        *)
(* characters over ParseChars is parsed once.                              *)
(***************************************************************************)
MaxRawLen == 5

ParseChars == {"1", "3", "-", " ", ",", "x"}

Texts(n) == UNION {[1..k -> ParseChars] : k \in 0..n}

(***************************************************************************)
(* The state of the application before any merge.                          *)
(***************************************************************************)
NoText == [text |-> "", i |-> 0, m |-> 0]

Status(t) == [text |-> t, i |-> 0, m |-> 0]

\* the text of progress_percent: "Done" at 100, f"{percentage}%" otherwise
PercentText(pct) == IF pct = 100 THEN <<"D", "o", "n", "e">> ELSE Append(ToStr(pct), "%")

NotCalled == [called |-> FALSE, input_paths |-> <<>>]

uiVars == <<merge_button, uiQueue, progress_label, progress_percent, dialogs>>

workerVars ==
    <<wpc, active, hymn_input, output_filename, hymn_numbers, idx, missing, to_merge,
      checked_log, merge_call, outcome>>

envVars == <<pdfLib, outDirExists, outFileExists>>

appVars == <<uiVars, workerVars, envVars>>

\* the window as HymnCombinerApp.__init__ leaves it, and no worker
AppStart ==
    /\ merge_button = "normal"
    /\ uiQueue = <<>>
    /\ progress_label = Status("Ready")
    /\ progress_percent = PercentText(0)
    /\ dialogs = <<>>
    /\ wpc = "idle"
    /\ active = 0
    /\ hymn_input = <<>>
    /\ output_filename = <<>>
    /\ hymn_numbers = <<>>
    /\ idx = 0
    /\ missing = <<>>
    /\ to_merge = <<>>
    /\ checked_log = <<>>
    /\ merge_call = NotCalled
    /\ outcome = "none"
    /\ outDirExists = FALSE
    /\ outFileExists = FALSE

AppIdle == AppStart /\ pdfLib = TRUE

\* no directory and no call of the resolver
ResolverIdle ==
    /\ dirExists = FALSE
    /\ dirFiles = {}
    /\ platform = "posix"
    /\ hashOrder = <<>>
    /\ hymn_number = 0
    /\ paths = <<>>
    /\ prev_paths = <<>>
    /\ calls = 0

ParseInit ==
    /\ raw \in Texts(MaxRawLen)
    /\ parsed = "no"
    /\ nums = <<>>
    /\ ResolverIdle
    /\ AppIdle

ParseCall ==
    /\ parsed = "no"
    /\ nums' = parse_hymn_numbers(raw)
    /\ parsed' = "yes"
    /\ UNCHANGED <<raw, dirVars, resolveVars, appVars>>

ParseNext == ParseCall

SpecParse == ParseInit /\ [][ParseNext]_vars

(***************************************************************************)
(* What the parser is required to return, stated on the text itself: the   *)
(* tokens are the maximal runs of non-separator characters, and a token    *)
(* stands for one number, for an inclusive range, or for nothing.          *)
(***************************************************************************)
TokenStarts(s) == {i \in 1..Len(s) : ~IsSep(s[i]) /\ (i = 1 \/ IsSep(s[i - 1]))}

TokenEnd(s, i) ==
    CHOOSE j \in i..Len(s) :
        /\ \A k \in i..j : ~IsSep(s[k])
        /\ (j = Len(s) \/ IsSep(s[j + 1]))

\* the tokens of s, left to right
TextTokens(s) ==
    LET starts == TokenStarts(s)
        nth(k) == CHOOSE i \in starts : Cardinality({j \in starts : j < i}) = k - 1
    IN  [k \in 1..Cardinality(starts) |-> SubSeq(s, nth(k), TokenEnd(s, nth(k)))]

AllDigits(s) == \A i \in 1..Len(s) : s[i] \in {"0", "1", "2", "3", "4", "5", "6", "7", "8", "9"}

IsNumberShape(tok) == Len(tok) \in 1..4 /\ AllDigits(tok)

HyphenAt(tok) == {h \in 1..Len(tok) : tok[h] = "-"}

IsRangeShape(tok) ==
    /\ Cardinality(HyphenAt(tok)) = 1
    /\ LET h == CHOOSE x \in HyphenAt(tok) : TRUE
       IN  /\ IsNumberShape(SubSeq(tok, 1, h - 1))
           /\ IsNumberShape(SubSeq(tok, h + 1, Len(tok)))

WellFormed(tok) == IsNumberShape(tok) \/ IsRangeShape(tok)

\* the decimal value of a digit string, most significant digit first
RECURSIVE Value(_)
Value(ds) ==
    IF ds = <<>> THEN 0
    ELSE DigitVal(ds[1]) * (10 ^ (Len(ds) - 1)) + Value(Tail(ds))

RangeFrom(tok) == Value(SubSeq(tok, 1, (CHOOSE x \in HyphenAt(tok) : TRUE) - 1))

RangeTo(tok) == Value(SubSeq(tok, (CHOOSE x \in HyphenAt(tok) : TRUE) + 1, Len(tok)))

Dist(a, b) == IF a >= b THEN a - b ELSE b - a

Expansion(tok) ==
    IF IsNumberShape(tok) THEN <<Value(tok)>>
    ELSE IF IsRangeShape(tok)
         THEN LET a == RangeFrom(tok)
                  b == RangeTo(tok)
              IN  [k \in 1..(Dist(a, b) + 1) |-> IF b >= a THEN a + (k - 1) ELSE a - (k - 1)]
         ELSE <<>>

RECURSIVE ConcatExpansions(_)
ConcatExpansions(toks) ==
    IF toks = <<>> THEN <<>>
    ELSE Expansion(Head(toks)) \o ConcatExpansions(Tail(toks))

Count(v, s) == Cardinality({i \in 1..Len(s) : s[i] = v})

RECURSIVE SumCounts(_, _)
SumCounts(v, toks) ==
    IF toks = <<>> THEN 0
    ELSE Count(v, Expansion(Head(toks))) + SumCounts(v, Tail(toks))

RECURSIVE JoinTokens(_)
JoinTokens(toks) ==
    IF toks = <<>> THEN <<>>
    ELSE IF Len(toks) = 1 THEN Head(toks)
    ELSE Head(toks) \o <<" ">> \o JoinTokens(Tail(toks))

\* the numbers the valid tokens spell out: single numbers and range ends
WrittenNumbers(toks) ==
    {Value(toks[k]) : k \in {i \in 1..Len(toks) : IsNumberShape(toks[i])}}
        \cup {RangeFrom(toks[k]) : k \in {i \in 1..Len(toks) : IsRangeShape(toks[i])}}
        \cup {RangeTo(toks[k]) : k \in {i \in 1..Len(toks) : IsRangeShape(toks[i])}}

Str3_1_3 == <<"3", " ", "1", " ", "3">>

\* C1: the list parse_hymn_numbers returns is the concatenation, in left-to-right
\* token order, of the expansion of each valid token; a number occurs in it as
\* many times as it occurs in the expansions (nothing is deduplicated or sorted);
\* the occurrences are counted for every number the text spells out.
C1_OrderAndDuplicatesKept ==
    parsed = "yes" =>
        LET toks == TextTokens(raw)
        IN  /\ nums = ConcatExpansions(toks)
            /\ \A v \in WrittenNumbers(toks) : Count(v, nums) = SumCounts(v, toks)
            /\ (raw = Str3_1_3 => nums = <<3, 1, 3>>)

C1_Witness == parsed = "yes" /\ raw = Str3_1_3 /\ nums = <<3, 1, 3>>

\* the length of what the tokens before the k-th one expand to
ExpandedBefore(toks, k) == Len(ConcatExpansions(SubSeq(toks, 1, k - 1)))

\* C2: every range token a-b adds exactly the integers from a to b inclusive,
\* stepping +1 when b >= a and -1 when b < a: its part of the result starts with
\* a, ends with b and has |a-b|+1 elements (one element for a-a).
C2_RangeInclusiveBothWays ==
    parsed = "yes" =>
        LET toks == TextTokens(raw)
        IN  \A k \in 1..Len(toks) :
                IsRangeShape(toks[k]) =>
                    LET a   == RangeFrom(toks[k])
                        b   == RangeTo(toks[k])
                        off == ExpandedBefore(toks, k)
                        n   == Dist(a, b) + 1
                    IN  /\ Len(nums) >= off + n
                        /\ nums[off + 1] = a
                        /\ nums[off + n] = b
                        /\ \A j \in 1..(n - 1) :
                              nums[off + j + 1] = nums[off + j] + (IF b >= a THEN 1 ELSE -1)
                        /\ (a = b => n = 1)
                        /\ Len(nums) = off + n + Len(ConcatExpansions(SubSeq(toks, k + 1, Len(toks))))

C2_Witness == parsed = "yes" /\ raw = <<"3", "-", "1">> /\ nums = <<3, 2, 1>>

\* the text with its malformed tokens removed
WellFormedOnly(s) == JoinTokens(SelectSeq(TextTokens(s), WellFormed))

\* C3: parse_hymn_numbers returns a list for every text, and a malformed token
\* (neither 1-4 digits nor 1-4 digits, a hyphen, 1-4 digits) adds nothing and
\* leaves what the other tokens add unchanged.
C3_MalformedTokensDropped ==
    parsed = "yes" =>
        /\ nums \in Seq(Nat)
        /\ nums = parse_hymn_numbers(WellFormedOnly(raw))
        /\ Len(nums) >= Len(SelectSeq(TextTokens(raw), WellFormed))
        /\ (SelectSeq(TextTokens(raw), WellFormed) = <<>> => nums = <<>>)

C3_Witness == parsed = "yes" /\ raw = <<"1", ",", "3", "-", "x">> /\ nums = <<1>>

(***************************************************************************)
(* pdf_paths_for_hymn                                                      *)
(***************************************************************************)
\* ord(c) of the ASCII characters file names are made of
Ord(c) ==
    IF c \in Range(DigitChars) THEN 47 + IndexOf(c, DigitChars)
    ELSE IF c \in Range(UpperChars) THEN 64 + IndexOf(c, UpperChars)
    ELSE IF c \in Range(LowerChars) THEN 96 + IndexOf(c, LowerChars)
    ELSE IF c = "." THEN 46
    ELSE IF c = "-" THEN 45
    ELSE IF c = "_" THEN 95
    ELSE 32

LowerChar(c) == IF c \in Range(UpperChars) THEN LowerChars[IndexOf(c, UpperChars)] ELSE c

\* str.lower(), and the case folding of re.IGNORECASE and of a case-insensitive lookup
Lower(s) == [i \in 1..Len(s) |-> LowerChar(s[i])]

\* s < t for two strings: the first differing character decides, a proper prefix is less
RECURSIVE StrLess(_, _)
StrLess(s, t) ==
    IF t = <<>> THEN FALSE
    ELSE IF s = <<>> THEN TRUE
    ELSE IF Ord(s[1]) # Ord(t[1]) THEN Ord(s[1]) < Ord(t[1])
    ELSE StrLess(Tail(s), Tail(t))

StartsWith(s, pre) == Len(s) >= Len(pre) /\ SubSeq(s, 1, Len(pre)) = pre

EndsWith(s, suf) == Len(s) >= Len(suf) /\ SubSeq(s, Len(s) - Len(suf) + 1, Len(s)) = suf

DotPdf == <<".", "p", "d", "f">>

\* exact = pdf_dir / f"{hymn_number}.pdf"
ExactName(n) == ToStr(n) \o DotPdf

\* the lookup of a name folds case on the file systems of macOS and Windows
ExistsFolds(plat) == plat \in {"darwin", "windows"}

\* Path.glob compiles its pattern with re.IGNORECASE for Windows paths only
GlobFolds(plat) == plat = "windows"

\* exact.exists()
ExactExists(files, plat, n) ==
    IF ExistsFolds(plat)
    THEN \E f \in files : Lower(f) = Lower(ExactName(n))
    ELSE ExactName(n) \in files

\* the names pdf_dir.glob(f"{hymn_number}_*.pdf") yields
GlobNames(files, plat, n) ==
    LET pre  == Append(ToStr(n), "_")
        fits(name) == /\ Len(name) >= Len(pre) + Len(DotPdf)
                      /\ StartsWith(name, pre)
                      /\ EndsWith(name, DotPdf)
    IN  {f \in files : IF GlobFolds(plat) THEN fits(Lower(f)) ELSE fits(f)}

\* re.compile(rf"^{hymn_number}(?:\.|_).+\.pdf$", re.IGNORECASE).match(name)
PatternMatch(name, n) ==
    LET pre == ToStr(n)
        low == Lower(name)
    IN  /\ Len(low) >= Len(pre) + 1 + 1 + Len(DotPdf)
        /\ StartsWith(low, pre)
        /\ low[Len(pre) + 1] \in {".", "_"}
        /\ EndsWith(low, DotPdf)

\* a glob of f"{hymn_number}*.pdf" whose results are taken as they come
MatchesAnyPrefix(files, plat, n) ==
    LET fits(name) == /\ Len(name) >= Len(ToStr(n)) + Len(DotPdf)
                      /\ StartsWith(name, ToStr(n))
                      /\ EndsWith(name, DotPdf)
    IN  {f \in files : IF GlobFolds(plat) THEN fits(Lower(f)) ELSE fits(f)}

\* set(matches): the exact path when it exists and every globbed path the pattern accepts
Matches(files, plat, n) ==
    (IF ExactExists(files, plat, n) THEN {ExactName(n)} ELSE {})
        \cup {f \in GlobNames(files, plat, n) : PatternMatch(f, n)}

\* p.stem: the name without its last suffix
Stem(name) ==
    LET dots == {i \in 2..(Len(name) - 1) : name[i] = "."}
    IN  IF dots = {} THEN name
        ELSE SubSeq(name, 1, (CHOOSE i \in dots : \A j \in dots : j <= i) - 1)

UnderscorePage == <<"_", "p", "a", "g", "e">>

\* where re.search(r"_PAGE(\d+)", stem, flags=re.IGNORECASE) can match
MarkerStarts(stem) ==
    {i \in 1..(Len(stem) - Len(UnderscorePage)) :
        /\ Lower(SubSeq(stem, i, i + Len(UnderscorePage) - 1)) = UnderscorePage
        /\ IsDigit(stem[i + Len(UnderscorePage)])}

\* the digits \d+ takes from position i on: as many as there are
RECURSIVE DigitRun(_, _)
DigitRun(s, i) ==
    IF i <= Len(s) /\ IsDigit(s[i]) THEN <<s[i]>> \o DigitRun(s, i + 1) ELSE <<>>

\* page = int(m.group(1)) if m else 0
PageOf(name) ==
    LET stem   == Stem(name)
        starts == MarkerStarts(stem)
    IN  IF starts = {} THEN 0
        ELSE LET first == CHOOSE i \in starts : \A j \in starts : i <= j
             IN  ToInt(DigitRun(stem, first + Len(UnderscorePage)))

\* a key that ignores the page marker
sort_key_by_name(name) == <<0, Lower(name)>>

\* sort_key(p) == (page, p.name.lower())
sort_key(name) == <<PageOf(name), Lower(name)>>

\* k1 < k2 for two keys: tuples compare by their first differing component
KeyLess(k1, k2) == k1[1] < k2[1] \/ (k1[1] = k2[1] /\ StrLess(k1[2], k2[2]))

\* sorted(): x goes before the first element whose key is greater, so that elements
\* of equal key keep the order they came in
InsertSorted(acc, x) ==
    LET later == {i \in 1..Len(acc) : KeyLess(sort_key(x), sort_key(acc[i]))}
        at    == IF later = {} THEN Len(acc) + 1
                 ELSE CHOOSE i \in later : \A j \in later : i <= j
    IN  SubSeq(acc, 1, at - 1) \o <<x>> \o SubSeq(acc, at, Len(acc))

RECURSIVE SortedFrom(_, _, _)
SortedFrom(s, i, acc) ==
    IF i > Len(s) THEN acc ELSE SortedFrom(s, i + 1, InsertSorted(acc, s[i]))

Sorted(s) == SortedFrom(s, 1, <<>>)

\* the directory entry a path names
EntryOf(files, plat, name) ==
    IF name \in files THEN name
    ELSE CHOOSE f \in files : Lower(f) = Lower(name)

\* the elements of the set S of paths in the order the set yields them: the
\* order the string hashes of this process give, order being a list of all entries
SetIter(S, files, plat, order) ==
    LET pos(name) == CHOOSE i \in 1..Len(order) : order[i] = EntryOf(files, plat, name)
        nth(k)    == CHOOSE x \in S : Cardinality({y \in S : pos(y) < pos(x)}) = k - 1
    IN  [k \in 1..Cardinality(S) |-> nth(k)]

pdf_paths_for_hymn(exists, files, plat, order, n) ==
    IF ~exists THEN <<>>
    ELSE Sorted(SetIter(Matches(files, plat, n), files, plat, order))

(***************************************************************************)
(* Specification of the resolver alone: a directory of at most MaxFiles    *)
(* entries drawn from FileUniverse, resolved for one number up to          *)
(* MaxCalls times, by the same process or by a process launched anew.      *)
(***************************************************************************)
DotPDF == <<".", "P", "D", "F">>

FileUniverse ==
    { <<"1">> \o DotPdf,
      <<"1">> \o DotPDF,
      <<"1", "2", "_", "i">> \o DotPdf,
      <<"1", "_">> \o DotPdf,
      <<"1", "_", "P", "A", "G", "E", "2">> \o DotPdf,
      <<"1", "_", "p", "a", "g", "e", "1", "0">> \o DotPdf,
      <<"1", "_", "B">> \o DotPdf,
      <<"1", "_", "a">> \o DotPdf,
      <<"1", "_", "A">> \o DotPdf,
      <<"1", "_", "a">> \o DotPDF }

MaxFiles == 3

MaxCalls == 2

ResolveNumbers == {1, 12}

Platforms == {"posix", "darwin", "windows"}

\* the lists in which every element of S occurs once
Orders(S) == {o \in [1..Cardinality(S) -> S] : Range(o) = S}

\* a directory a file system of the platform can hold
ValidDir(files, plat) ==
    ExistsFolds(plat) => \A f, g \in files : Lower(f) = Lower(g) => f = g

ParserIdle ==
    /\ raw = <<>>
    /\ parsed = "no"
    /\ nums = <<>>

ResolveInit ==
    /\ ParserIdle
    /\ dirExists \in BOOLEAN
    /\ platform \in Platforms
    /\ dirFiles \in {d \in SUBSET FileUniverse : Cardinality(d) <= MaxFiles}
    /\ dirExists = FALSE => dirFiles = {}
    /\ ValidDir(dirFiles, platform)
    /\ hashOrder \in Orders(dirFiles)
    /\ hymn_number \in ResolveNumbers
    /\ paths = <<>>
    /\ prev_paths = <<>>
    /\ calls = 0
    /\ AppIdle

\* a call of pdf_paths_for_hymn(pdf_dir, hymn_number)
Resolve ==
    /\ calls < MaxCalls
    /\ paths' = pdf_paths_for_hymn(dirExists, dirFiles, platform, hashOrder, hymn_number)
    /\ prev_paths' = paths
    /\ calls' = calls + 1
    /\ UNCHANGED <<parseVars, dirVars, hymn_number, appVars>>

\* main(): the program is started again on the unchanged directory; a new
\* process hashes strings under a new random seed
Relaunch ==
    /\ calls >= 1
    /\ calls < MaxCalls
    /\ hashOrder' \in Orders(dirFiles)
    /\ UNCHANGED <<parseVars, dirExists, dirFiles, platform, resolveVars, appVars>>

ResolveNext == Resolve \/ Relaunch

SpecResolve == ResolveInit /\ [][ResolveNext]_vars

(***************************************************************************)
(* Properties of the resolver.                                             *)
(***************************************************************************)
File_1 == <<"1">> \o DotPdf

File_12_i == <<"1", "2", "_", "i">> \o DotPdf

File_1_PAGE2 == <<"1", "_", "P", "A", "G", "E", "2">> \o DotPdf

File_1_page10 == <<"1", "_", "p", "a", "g", "e", "1", "0">> \o DotPdf

File_1_a == <<"1", "_", "a">> \o DotPdf

File_1_A == <<"1", "_", "A">> \o DotPdf

File_1_B == <<"1", "_", "B">> \o DotPdf

File_1_upper == <<"1">> \o DotPDF

\* the number a file name starts with
LeadingNumber(name) == Value(DigitRun(name, 1))

\* C4: every file pdf_paths_for_hymn returns for N is named N.pdf or starts with
\* the decimal text of N immediately followed by '_'; a file whose leading number
\* is another number that has N as a prefix (12_i.pdf for N = 1) is not returned.
C4_NoPrefixCollision ==
    calls >= 1 =>
        /\ \A i \in 1..Len(paths) :
              /\ \/ paths[i] = ToStr(hymn_number) \o DotPdf
                 \/ StartsWith(paths[i], Append(ToStr(hymn_number), "_"))
              /\ LeadingNumber(paths[i]) = hymn_number
        /\ (hymn_number = 1 => File_12_i \notin Range(paths))

C4_Witness ==
    /\ calls >= 1
    /\ hymn_number = 1
    /\ dirFiles = {File_1, File_12_i}
    /\ paths = <<File_1>>

\* the page index as the specification words it: the number after the first
\* "_PAGE" (in any letter case) that a digit follows, in the name without its
\* four-character extension; 0 when there is none
PageIndex(name) ==
    LET stem == SubSeq(name, 1, Len(name) - 4)
        isMarker(i) == /\ i + 5 <= Len(stem)
                       /\ stem[i] = "_"
                       /\ stem[i + 1] \in {"p", "P"}
                       /\ stem[i + 2] \in {"a", "A"}
                       /\ stem[i + 3] \in {"g", "G"}
                       /\ stem[i + 4] \in {"e", "E"}
                       /\ stem[i + 5] \in Range(DigitChars)
        marks == {i \in 1..Len(stem) : isMarker(i)}
    IN  IF marks = {} THEN 0
        ELSE LET m == CHOOSE i \in marks : \A j \in marks : i <= j
                 last == CHOOSE e \in (m + 5)..Len(stem) :
                            /\ \A k \in (m + 5)..e : stem[k] \in Range(DigitChars)
                            /\ (e = Len(stem) \/ stem[e + 1] \notin Range(DigitChars))
             IN  Value(SubSeq(stem, m + 5, last))

\* C5: the files returned for one number are sorted by (page index, lower-cased
\* name): a smaller page index comes first, compared as a number, and files of
\* equal page index are in case-insensitive alphabetical order.
C5_SortedByPageThenName ==
    calls >= 1 =>
        \A i, j \in 1..Len(paths) :
            i < j =>
                \/ PageIndex(paths[i]) < PageIndex(paths[j])
                \/ /\ PageIndex(paths[i]) = PageIndex(paths[j])
                   /\ ~StrLess(Lower(paths[j]), Lower(paths[i]))

C5_Witness ==
    /\ calls >= 1
    /\ hymn_number = 1
    /\ dirFiles = {File_1_page10, File_1_PAGE2, File_1}
    /\ paths = <<File_1, File_1_PAGE2, File_1_page10>>

\* C8: two resolutions of the same number in the unchanged directory return the
\* same files in the same order.
C8_Idempotent == calls >= 2 => paths = prev_paths

\* C9: where names are looked up case-sensitively, every entry named N.pdf or
\* N_<text>.pdf with the extension in any letter case is returned for N.
C9_ExtensionAnyCase ==
    (calls >= 1 /\ dirExists /\ platform = "posix") =>
        \A f \in dirFiles :
            (/\ EndsWith(Lower(f), DotPdf)
             /\ \/ Len(f) = Len(ToStr(hymn_number)) + 4 /\ StartsWith(f, ToStr(hymn_number))
                \/ /\ Len(f) > Len(ToStr(hymn_number)) + 5
                   /\ StartsWith(f, Append(ToStr(hymn_number), "_")))
                => f \in Range(paths)

(***************************************************************************)
(* HymnCombinerApp: start_merge on the UI thread, merge_pdfs on the worker *)
(* thread, and the callbacks the worker posts with root.after(0, ...),     *)
(* which the Tk event loop runs in the order they were posted.             *)
(***************************************************************************)
\* f"Finding PDF files... ({i + 1}/{len(hymn_numbers)} hymns checked)"
CheckedStatus(i, m) == [text |-> "Finding PDF files... hymns checked", i |-> i + 1, m |-> m]

\* self.root.after(0, self._update_progress_ui, percentage, status_text)
ProgressEvent(pct, status) ==
    [type |-> "progress", pct |-> pct, status |-> status, title |-> "", missing |-> <<>>]

\* self.root.after(0, lambda: messagebox.showerror(title, message))
ErrorEvent(title, message, miss) ==
    [type |-> "showerror", pct |-> 0, status |-> Status(message), title |-> title, missing |-> miss]

\* a finally clause that resets the status line and leaves the button as it is
StatusResetEvent ==
    [type |-> "progress", pct |-> 0, status |-> Status("Ready"), title |-> "", missing |-> <<>>]

\* self.root.after(0, self.restore_ui_state)
RestoreEvent ==
    [type |-> "restore", pct |-> 0, status |-> NoText, title |-> "", missing |-> <<>>]

Dialog(title, message, miss) == [title |-> title, message |-> message, missing |-> miss]

\* progress = 30 + int((i + 1) / len(hymn_numbers) * 20)
\* (the float quotient times 20, truncated: the integer quotient for the list
\* lengths the specification reaches)
LoopProgress(i, m) == 30 + ((i + 1) * 20) \div m

\* output_filename, with ".pdf" added unless it ends with it in any letter case
WithPdfSuffix(name) == IF EndsWith(Lower(name), DotPdf) THEN name ELSE name \o DotPdf

\* list.extend that leaves out the items the list already holds
ExtendNew(lst, items) == lst \o SelectSeq(items, LAMBDA x : x \notin Range(lst))

\* to_merge.extend(paths)
Extend(lst, items) == lst \o items

\* a test of the missing list in place of the list of files
NothingToMergeIfMissing(files, miss) == miss # <<>>

\* if not to_merge
NothingToMerge(files, miss) == files = <<>>

(***************************************************************************)
(* The UI thread.                                                          *)
(***************************************************************************)
\* start_merge: the click on the Merge button with entryText in hymn_entry and
\* nameText in filename_entry; a disabled button and a window under a modal
\* dialog take no click
StartMerge(entryText, nameText) ==
    /\ merge_button = "normal"
    /\ dialogs = <<>>
    /\ IF Strip(entryText) = <<>>
       THEN /\ dialogs' = <<Dialog("Error", "Please enter hymn numbers.", <<>>)>>
            /\ UNCHANGED <<merge_button, uiQueue, workerVars>>
       ELSE IF Strip(nameText) = <<>>
       THEN /\ dialogs' = <<Dialog("Error", "Please enter output filename.", <<>>)>>
            /\ UNCHANGED <<merge_button, uiQueue, workerVars>>
       ELSE /\ merge_button' = "disabled"
            /\ uiQueue' = Append(uiQueue, ProgressEvent(0, Status("Starting merge process...")))
            /\ wpc' = "parse"
            /\ active' = active + 1
            /\ hymn_input' = Strip(entryText)
            /\ output_filename' = WithPdfSuffix(Strip(nameText))
            /\ hymn_numbers' = <<>>
            /\ idx' = 0
            /\ missing' = <<>>
            /\ to_merge' = <<>>
            /\ checked_log' = <<>>
            /\ merge_call' = NotCalled
            /\ outcome' = "none"
            /\ UNCHANGED dialogs
    /\ UNCHANGED <<progress_label, progress_percent, envVars>>
    /\ UNCHANGED <<parseVars, dirVars, resolveVars>>

\* the event loop runs the callback posted first: _update_progress_ui, the
\* messagebox.showerror lambda, or restore_ui_state
UiDispatch ==
    /\ uiQueue # <<>>
    /\ LET ev == Head(uiQueue)
       IN  \/ /\ ev.type = "progress"
              /\ progress_label' = ev.status
              /\ progress_percent' = PercentText(ev.pct)
              /\ uiQueue' = Tail(uiQueue)
              /\ UNCHANGED <<merge_button, dialogs>>
           \/ /\ ev.type = "showerror"
              /\ dialogs' = Append(dialogs, Dialog(ev.title, ev.status.text, ev.missing))
              /\ uiQueue' = Tail(uiQueue)
              /\ UNCHANGED <<merge_button, progress_label, progress_percent>>
           \/ /\ ev.type = "restore"
              /\ merge_button' = "normal"
              /\ uiQueue' = Append(Tail(uiQueue), ProgressEvent(0, Status("Ready")))
              /\ UNCHANGED <<dialogs, progress_label, progress_percent>>
    /\ UNCHANGED <<workerVars, envVars>>
    /\ UNCHANGED <<parseVars, dirVars, resolveVars>>

\* the user closes the message box on top
DismissDialog ==
    /\ dialogs # <<>>
    /\ dialogs' = SubSeq(dialogs, 1, Len(dialogs) - 1)
    /\ UNCHANGED <<merge_button, uiQueue, progress_label, progress_percent>>
    /\ UNCHANGED <<workerVars, envVars>>
    /\ UNCHANGED <<parseVars, dirVars, resolveVars>>

(***************************************************************************)
(* The worker thread: HymnCombinerApp.merge_pdfs.                          *)
(***************************************************************************)
\* from the entry of merge_pdfs to the start of the loop over hymn_numbers
WorkerParse ==
    /\ wpc = "parse"
    /\ LET numbers == parse_hymn_numbers(hymn_input)
       IN  /\ hymn_numbers' = numbers
           /\ IF numbers = <<>>
              THEN /\ uiQueue' = uiQueue \o
                        << ProgressEvent(10, Status("Parsing hymn numbers...")),
                           ProgressEvent(100, Status("Error - No valid hymn numbers")),
                           ErrorEvent("Error", "No valid hymn numbers found.", <<>>),
                           RestoreEvent >>
                   /\ outcome' = "NoValidNumbers"
                   /\ wpc' = "idle"
                   /\ active' = active - 1
              ELSE /\ uiQueue' = uiQueue \o
                        << ProgressEvent(10, Status("Parsing hymn numbers...")),
                           ProgressEvent(20, Status("Setting up output path...")),
                           ProgressEvent(30, Status("Finding PDF files...")) >>
                   /\ wpc' = "resolve"
                   /\ UNCHANGED <<outcome, active>>
    /\ idx' = 0
    /\ missing' = <<>>
    /\ to_merge' = <<>>
    /\ UNCHANGED <<hymn_input, output_filename, checked_log, merge_call>>
    /\ UNCHANGED <<merge_button, progress_label, progress_percent, dialogs, envVars>>
    /\ UNCHANGED <<parseVars, dirVars, resolveVars>>

\* one turn of the loop "for i, n in enumerate(hymn_numbers)"
WorkerResolve ==
    /\ wpc = "resolve"
    /\ idx < Len(hymn_numbers)
    /\ LET n     == hymn_numbers[idx + 1]
           found == pdf_paths_for_hymn(dirExists, dirFiles, platform, hashOrder, n)
       IN  IF found = <<>>
           THEN /\ missing' = Append(missing, n)
                /\ UNCHANGED <<to_merge, uiQueue, checked_log>>
           ELSE /\ to_merge' = Extend(to_merge, found)
                /\ uiQueue' = Append(uiQueue,
                        ProgressEvent(LoopProgress(idx, Len(hymn_numbers)),
                                      CheckedStatus(idx, Len(hymn_numbers))))
                /\ checked_log' = Append(checked_log, idx + 1)
                /\ UNCHANGED missing
    /\ idx' = idx + 1
    /\ wpc' = IF idx + 1 = Len(hymn_numbers) THEN "merge" ELSE "resolve"
    /\ UNCHANGED <<active, hymn_input, output_filename, hymn_numbers, merge_call, outcome>>
    /\ UNCHANGED <<merge_button, progress_label, progress_percent, dialogs, envVars>>
    /\ UNCHANGED <<parseVars, dirVars, resolveVars>>

\* after the loop: nothing found
WorkerNoFiles ==
    /\ wpc = "merge"
    /\ NothingToMerge(to_merge, missing)
    /\ uiQueue' = uiQueue \o
            << ProgressEvent(100, Status("Error - No PDF files found")),
               ErrorEvent("Error", "No PDF files found for the provided hymn numbers.", missing),
               RestoreEvent >>
    /\ outcome' = "NoFilesFound"
    /\ wpc' = "idle"
    /\ active' = active - 1
    /\ UNCHANGED <<hymn_input, output_filename, hymn_numbers, idx, missing, to_merge,
                   checked_log, merge_call>>
    /\ UNCHANGED <<merge_button, progress_label, progress_percent, dialogs, envVars>>
    /\ UNCHANGED <<parseVars, dirVars, resolveVars>>

\* after the loop: merge_pdfs(to_merge, output_path) is called; the library is
\* missing (ImportError, raised before anything is created), the merge fails
\* (any other exception, the output file written or not), or it succeeds
WorkerMerge ==
    /\ wpc = "merge"
    /\ ~NothingToMerge(to_merge, missing)
    /\ merge_call' = [called |-> TRUE, input_paths |-> to_merge]
    /\ \/ /\ ~pdfLib
          /\ uiQueue' = uiQueue \o
                << ProgressEvent(60, Status("Merging PDF files...")),
                   ProgressEvent(100, Status("Error - Missing dependency")),
                   ErrorEvent("Dependency Error", "Missing dependency", <<>>),
                   RestoreEvent >>
          /\ outcome' = "MissingDependency"
          /\ wpc' = "idle"
          /\ active' = active - 1
          /\ UNCHANGED <<outDirExists, outFileExists>>
       \/ /\ pdfLib
          /\ outDirExists' = TRUE
          /\ outFileExists' \in {outFileExists, TRUE}
          /\ uiQueue' = uiQueue \o
                << ProgressEvent(60, Status("Merging PDF files...")),
                   ProgressEvent(100, Status("Error - Merge failed")),
                   ErrorEvent("Error", "Failed to merge PDFs", <<>>),
                   RestoreEvent >>
          /\ outcome' = "MergeFailure"
          /\ wpc' = "idle"
          /\ active' = active - 1
       \/ /\ pdfLib
          /\ outDirExists' = TRUE
          /\ outFileExists' = TRUE
          /\ uiQueue' = uiQueue \o
                << ProgressEvent(60, Status("Merging PDF files...")),
                   ProgressEvent(90, Status("Finalizing merge...")),
                   ProgressEvent(100, Status("Done")) >>
          /\ wpc' = "ask"
          /\ UNCHANGED <<outcome, active>>
    /\ UNCHANGED <<hymn_input, output_filename, hymn_numbers, idx, missing, to_merge,
                   checked_log, pdfLib>>
    /\ UNCHANGED <<merge_button, progress_label, progress_percent, dialogs>>
    /\ UNCHANGED <<parseVars, dirVars, resolveVars>>

\* messagebox.askyesno("Success!", ...) is answered, the folder is opened or
\* not, and the finally clause posts restore_ui_state
WorkerAsk ==
    /\ wpc = "ask"
    /\ uiQueue' = Append(uiQueue, RestoreEvent)
    /\ outcome' = "Success"
    /\ wpc' = "idle"
    /\ active' = active - 1
    /\ UNCHANGED <<hymn_input, output_filename, hymn_numbers, idx, missing, to_merge,
                   checked_log, merge_call>>
    /\ UNCHANGED <<merge_button, progress_label, progress_percent, dialogs, envVars>>
    /\ UNCHANGED <<parseVars, dirVars, resolveVars>>

(***************************************************************************)
(* Specification of the application: a directory drawn from AppFiles, the  *)
(* PDF library installed or not, and any number of merges of the texts of  *)
(* EntryTexts, one after the other.                                        *)
(***************************************************************************)
File_3_a == <<"3", "_", "a">> \o DotPdf

AppFiles == {<<"1">> \o DotPdf, <<"1", "_", "P", "A", "G", "E", "2">> \o DotPdf, File_3_a}

EntryTexts ==
    { <<>>,
      <<"x">>,
      <<"2">>,
      <<"1", "-", "3">>,
      <<"3", " ", "1", " ", "3">> }

NameTexts == {<<>>, <<"o">>}

Init ==
    /\ ParserIdle
    /\ dirExists \in BOOLEAN
    /\ platform \in Platforms
    /\ dirFiles \in SUBSET AppFiles
    /\ dirExists = FALSE => dirFiles = {}
    /\ hashOrder \in Orders(dirFiles)
    /\ hymn_number = 0
    /\ paths = <<>>
    /\ prev_paths = <<>>
    /\ calls = 0
    /\ AppStart
    /\ pdfLib \in BOOLEAN

Next ==
    \/ \E entryText \in EntryTexts, nameText \in NameTexts : StartMerge(entryText, nameText)
    \/ UiDispatch
    \/ DismissDialog
    \/ WorkerParse
    \/ WorkerResolve
    \/ WorkerNoFiles
    \/ WorkerMerge
    \/ WorkerAsk

Spec == Init /\ [][Next]_vars

(***************************************************************************)
(* Properties of the merge worker.                                         *)
(***************************************************************************)
\* what the resolver returns for n in the directory as it is
ResolvedFor(n) == pdf_paths_for_hymn(dirExists, dirFiles, platform, hashOrder, n)

RECURSIVE ConcatResolved(_)
ConcatResolved(numbers) ==
    IF numbers = <<>> THEN <<>>
    ELSE ResolvedFor(Head(numbers)) \o ConcatResolved(Tail(numbers))

Unresolved(n) == ResolvedFor(n) = <<>>

\* the worker is past the parse and has resolved the first idx numbers
InOrPastLoop == hymn_numbers # <<>> /\ wpc # "parse"

\* C6: the list handed to the merge step is the concatenation, in parsed order,
\* of the resolver's result for each parsed number (a number parsed twice gives
\* its files twice), the missing list holds the parsed numbers that resolved to
\* nothing, in parsed order, and the merge is called whenever a file was found,
\* also when some numbers are missing.
C6_MergeListIsConcatenation ==
    InOrPastLoop =>
        LET done == SubSeq(hymn_numbers, 1, idx)
        IN  /\ to_merge = ConcatResolved(done)
            /\ missing = SelectSeq(done, Unresolved)
            /\ merge_call.called =>
                  /\ idx = Len(hymn_numbers)
                  /\ merge_call.input_paths = ConcatResolved(hymn_numbers)
            /\ (idx = Len(hymn_numbers) /\ wpc \in {"ask", "idle"} /\ to_merge # <<>>) =>
                  merge_call.called

C6_Witness ==
    /\ merge_call.called
    /\ hymn_numbers = <<1, 2, 3>>
    /\ missing = <<2>>
    /\ merge_call.input_paths = <<File_1, File_3_a>>

\* what holds of a worker that ended in one of the two failures
C7_FailureStates ==
    /\ outcome = "NoValidNumbers" => (hymn_numbers = <<>> /\ ~merge_call.called)
    /\ outcome = "NoFilesFound" =>
          /\ hymn_numbers # <<>>
          /\ \A k \in 1..Len(hymn_numbers) : Unresolved(hymn_numbers[k])
          /\ missing = hymn_numbers
          /\ ~merge_call.called
    /\ (wpc = "idle" /\ outcome # "none") =>
          /\ hymn_numbers = <<>> => outcome = "NoValidNumbers"
          /\ (/\ hymn_numbers # <<>>
              /\ \A k \in 1..Len(hymn_numbers) : Unresolved(hymn_numbers[k]))
                => outcome = "NoFilesFound"

\* what holds of the step in which a worker fails, and of any step that creates
\* the output directory or file
C7_FailureSteps ==
    /\ (outcome' = "NoFilesFound" /\ outcome # "NoFilesFound") =>
          /\ Len(uiQueue') >= 2
          /\ uiQueue'[Len(uiQueue') - 1].type = "showerror"
          /\ uiQueue'[Len(uiQueue') - 1].missing = hymn_numbers
          /\ UNCHANGED <<outDirExists, outFileExists>>
    /\ (outcome' = "NoValidNumbers" /\ outcome # "NoValidNumbers") =>
          UNCHANGED <<outDirExists, outFileExists>>
    /\ (outDirExists' # outDirExists \/ outFileExists' # outFileExists) =>
          (merge_call'.called /\ ~merge_call.called)

\* C7: the worker fails with NoValidNumbers when nothing was parsed and with
\* NoFilesFound, carrying the whole missing list, when numbers were parsed and
\* none resolved to a file; in both failures the module's merge_pdfs is not
\* called and no output directory or file is created.
C7_FailuresWithoutMerge == []C7_FailureStates /\ [][C7_FailureSteps]_vars

C7_Witness ==
    /\ outcome = "NoFilesFound"
    /\ hymn_numbers = <<1, 2, 3>>
    /\ missing = <<1, 2, 3>>
    /\ ~outDirExists

\* C10: the loop posts "(i of M hymns checked)" after each parsed number, found
\* or not: after k numbers the notifications posted are those for 1..k.
C10_EveryNumberNotified ==
    InOrPastLoop => checked_log = [k \in 1..idx |-> k]

(***************************************************************************)
(* The application under fair scheduling: the event loop runs every        *)
(* callback posted to it, the worker thread takes every step of merge_pdfs *)
(* it can take, and the question askyesno puts after a merge is answered.  *)
(* Nobody has to press Merge and nobody has to close an error box.         *)
(***************************************************************************)
\* a step of the worker thread in merge_pdfs
WorkerStep == WorkerParse \/ WorkerResolve \/ WorkerNoFiles \/ WorkerMerge \/ WorkerAsk

\* the worker thread moves on in merge_pdfs: as long as it runs it can, and the
\* steps that do this are the steps of WorkerStep
WorkerAdvances ==
    /\ wpc # "idle"
    /\ wpc' \in {"idle", "parse", "resolve", "merge", "ask"}
    /\ idx' \in {idx, idx + 1}
    /\ (wpc' # wpc \/ idx' # idx)

FairSpec == Spec /\ WF_vars(UiDispatch) /\ WF_<<wpc, idx>>(WorkerAdvances)

\* a worker is running, or its restore_ui_state has not run yet
MergeInFlight == merge_button = "disabled"

\* restore_ui_state has run and the status it posted is still to be shown
ReadyPosted == \E k \in 1..Len(uiQueue) : uiQueue[k] = ProgressEvent(0, Status("Ready"))

\* the step of start_merge that starts a worker thread
WorkerLaunched == wpc' = "parse" /\ wpc # "parse"

====
